---- MODULE Spec2Model ----
(***************************************************************************)
(* State-machine model of the SnakeGame component (src/vite.config.ts).    *)
(*                                                                         *)
(* The component is a React function component: its state is the set of    *)
(* useState cells, and every handler (button click, key press, interval    *)
(* tick, timeout callback) runs to completion on the single JavaScript     *)
(* thread against the values of the last render.  The model takes one      *)
(* step per handler and re-renders between two handlers, so the values a   *)
(* handler closes over are the current state, except for the callback of   *)
(* setTimeout, which keeps the closure of the render that scheduled it:    *)
(* its captured values are carried in the pending-timeout record.          *)
(***************************************************************************)
EXTENDS Integers, Sequences, FiniteSets

\* The grid of the program is 20 x 20 (GRID_SIZE = 20, line 21).  The model
\* checks the same code on a smaller square grid; the initial snake and food
\* cells are placed at the same relative positions (1/2 and 3/4 of the side),
\* which are (10,10) and (15,15) when the side is 20.
GRID_SIZE == 3

MAX_HIGH_SCORES == 5

\* GAME_SPEED is the period of the tick interval (ms), CHECK_DELAY the delay
\* of the high-score timeout scheduled by a collision tick (ms).
GAME_SPEED == 150

CHECK_DELAY == 100

\* Points added by one food (score + 10).
FOOD_SCORE == 10

VARIABLES
  snake,           \* useState<Position[]>: head first
  food,            \* useState<Position>
  direction,       \* useState<Direction>
  gameState,       \* useState<GameState>
  score,           \* useState(0)
  highScores,      \* useState<HighScore[]>
  showNameDialog,  \* useState(false)
  playerName,      \* useState('')
  newHighScore,    \* useState(0)
  pending,         \* timeouts set by setTimeout and not fired yet, oldest first
  snakeBody,       \* argument of a generateFood call that is still looping
  storage,         \* localStorage item 'snake-high-scores'
  mounted,         \* the component rendered (its state initializers returned)
  elapsed          \* ms since the tick interval was last set or last fired

vars == <<snake, food, direction, gameState, score, highScores,
          showNameDialog, playerName, newHighScore, pending, snakeBody,
          storage, mounted, elapsed>>

engineVars == <<snake, food, direction, gameState, score>>
boardVars == <<highScores, showNameDialog, playerName, newHighScore>>
hostVars == <<storage, mounted>>

\* Everything but the clock of the interval.
programVars == <<engineVars, boardVars, pending, snakeBody, hostVars>>

----------------------------------------------------------------------------
(* Values *)

Pos(px, py) == [x |-> px, y |-> py]

Cells == {Pos(px, py) : px \in 0..(GRID_SIZE - 1), py \in 0..(GRID_SIZE - 1)}

INITIAL_SNAKE == <<Pos(GRID_SIZE \div 2, GRID_SIZE \div 2)>>

INITIAL_FOOD == Pos((3 * GRID_SIZE) \div 4, (3 * GRID_SIZE) \div 4)

INITIAL_DIRECTION == Pos(0, -1)

GameStates == {"playing", "paused", "gameOver", "waiting"}

Range(s) == {s[i] : i \in 1..Len(s)}

\* snakeBody.some(segment => segment.x === p.x && segment.y === p.y)
OnSnake(body, p) == \E i \in 1..Len(body) : body[i].x = p.x /\ body[i].y = p.y

----------------------------------------------------------------------------
(* Leaderboard (lines 60-95) *)

\* What localStorage.getItem can return: null (nothing stored), a text that is
\* not JSON, or the JSON text of a list of records (written as the list).
Absent == [kind |-> "null", value |-> <<>>]
Malformed == [kind |-> "text", value |-> <<>>]
Json(scores) == [kind |-> "json", value |-> scores]

\* JSON.parse(saved) throws a SyntaxError on a text that is not JSON.
ParseThrows(saved) == saved.kind = "text"

\* The initializer of highScores (lines 52-55): saved ? JSON.parse(saved) : []
Load(saved) == IF saved.kind = "null" THEN <<>> ELSE saved.value

\* The names the input field can hold: empty, blank, and one proper name.
Names == {"", " ", "AB"}

\* String.prototype.trim on the names above.
Trim(name) == IF name = " " THEN "" ELSE name

HighScore(name, s) == [name |-> name, score |-> s]

\* [...scores].sort((a, b) => b.score - a.score): Array.prototype.sort is
\* stable, so records of equal score keep their order; written as the
\* insertion of the appended record into an already sorted list.
RECURSIVE SortDesc(_)
SortDesc(scores) ==
  IF Len(scores) <= 1 THEN scores
  ELSE LET rest == SortDesc(SubSeq(scores, 1, Len(scores) - 1))
           last == scores[Len(scores)]
           k == Cardinality({i \in 1..Len(rest) : rest[i].score >= last.score})
       IN SubSeq(rest, 1, k) \o <<last>> \o SubSeq(rest, k + 1, Len(rest))

\* The slice is missing: every record is kept.
Slice_keepsAll(scores, n) == scores

\* .slice(0, MAX_HIGH_SCORES)
Slice(scores, n) == SubSeq(scores, 1, IF Len(scores) < n THEN Len(scores) ELSE n)

\* A score equal to the lowest record is let in (>= for >).
Qualifies_orEqual(finalScore, scores) ==
  /\ finalScore # 0
  /\ \/ Len(scores) < MAX_HIGH_SCORES
     \/ finalScore >= scores[Len(scores)].score

\* The condition of checkForNewHighScore; scores is the highScores value the
\* callback closed over.
Qualifies(finalScore, scores) ==
  /\ finalScore # 0
  /\ \/ Len(scores) < MAX_HIGH_SCORES
     \/ finalScore > scores[Len(scores)].score

\* checkForNewHighScore(finalScore), run by the timeout callback.
checkForNewHighScore(finalScore, scores) ==
  IF Qualifies(finalScore, scores)
  THEN /\ newHighScore' = finalScore
       /\ showNameDialog' = TRUE
  ELSE UNCHANGED <<newHighScore, showNameDialog>>

----------------------------------------------------------------------------
(* Engine (lines 97-190) *)

\* generateFood is handed the snake as it was before the move.
FreeCells_beforeMove(body) == {c \in Cells : ~OnSnake(Tail(body), c)}

\* The cells generateFood can return: the loop resamples until the cell is on
\* no segment of snakeBody.
FreeCells(body) == {c \in Cells : ~OnSnake(body, c)}

\* The far walls are tested with > instead of >=.
HitsWall_offByOne(head) ==
  head.x < 0 \/ head.x > GRID_SIZE \/ head.y < 0 \/ head.y > GRID_SIZE

HitsWall(head) ==
  head.x < 0 \/ head.x >= GRID_SIZE \/ head.y < 0 \/ head.y >= GRID_SIZE

\* Only the head segment is compared.
HitsSelf_headOnly(head, body) == OnSnake(<<body[1]>>, head)

\* The tail, which the move is about to vacate, is left out of the test.
HitsSelf_sparesTail(head, body) ==
  OnSnake(SubSeq(body, 1, Len(body) - 1), head)

HitsSelf(head, body) == OnSnake(body, head)

NewHead(body, dir) == Pos(body[1].x + dir.x, body[1].y + dir.y)

\* newSnake.pop()
Pop(body) == SubSeq(body, 1, Len(body) - 1)

\* setTimeout(() => checkForNewHighScore(score), 100): the callback keeps the
\* score and the checkForNewHighScore (hence the highScores) of this render.
Timeout(finalScore, scores) == [finalScore |-> finalScore, highScores |-> scores]

\* generateFood never returns when its argument covers the grid; from then on
\* the thread never gets back to the event loop and no handler runs.  Nor
\* does any handler exist when the component failed to mount.
Responsive == mounted /\ snakeBody = <<>>

\* The delayed check (100 ms) is due before the next interval tick (150 ms
\* after the interval was last restarted, which the render after the
\* collision does): a tick finds no timeout pending.
TickDue == pending = <<>> \/ CHECK_DELAY >= GAME_SPEED

\* The values moveSnake depends on (line 163; checkForNewHighScore depends on
\* highScores, line 76; generateFood never changes).
Deps == <<direction, food, gameState, score, highScores>>

\* The interval effect (lines 197-200) after the render that follows a
\* handler: when a dependency of moveSnake changed, moveSnake is a new
\* function, the effect's cleanup clears the interval and the effect sets a
\* new one, whose period starts now.
Rerender == elapsed' = IF Deps' # Deps THEN 0 ELSE elapsed

\* setScore(0) is missing.
resetGame_keepsScore ==
  /\ Responsive
  /\ snake' = INITIAL_SNAKE
  /\ food' = INITIAL_FOOD
  /\ direction' = INITIAL_DIRECTION
  /\ gameState' = "waiting"
  /\ UNCHANGED <<score, boardVars, pending, snakeBody, hostVars>>
  /\ Rerender

\* const resetGame (lines 108-114)
resetGame ==
  /\ Responsive
  /\ snake' = INITIAL_SNAKE
  /\ food' = INITIAL_FOOD
  /\ direction' = INITIAL_DIRECTION
  /\ score' = 0
  /\ gameState' = "waiting"
  /\ UNCHANGED <<boardVars, pending, snakeBody, hostVars>>
  /\ Rerender

\* The PLAY AGAIN button (lines 281-286), the only caller of resetGame,
\* rendered in the gameOver overlay.
PlayAgainButton ==
  /\ gameState = "gameOver"
  /\ resetGame

\* const startGame (lines 116-118); called by the START GAME button, rendered
\* in the waiting overlay.
startGame ==
  /\ Responsive
  /\ gameState = "waiting"
  /\ gameState' = "playing"
  /\ UNCHANGED <<snake, food, direction, score, boardVars, pending, snakeBody,
                 hostVars>>
  /\ Rerender

\* const pauseGame (lines 120-122)
pauseGame ==
  gameState' = IF gameState = "paused" THEN "playing" ELSE "paused"

\* The collision branches of the setSnake updater (lines 135-148).
Collide ==
  /\ gameState' = "gameOver"
  /\ pending' = Append(pending, Timeout(score, highScores))
  /\ UNCHANGED <<snake, food, score, snakeBody>>

\* The food branch of the setSnake updater (lines 153-156); newSnake already
\* holds the new head.  generateFood(newSnake) returns any free cell; with no
\* free cell its loop never exits, the updater never returns and none of the
\* queued state updates is rendered.
Eat(newSnake) ==
  IF FreeCells(newSnake) = {}
  THEN /\ snakeBody' = newSnake
       /\ UNCHANGED <<snake, food, score, gameState, pending>>
  ELSE /\ snake' = newSnake
       /\ score' = score + FOOD_SCORE
       /\ food' \in FreeCells(newSnake)
       /\ UNCHANGED <<gameState, pending, snakeBody>>

\* The else branch (lines 157-159).
Advance(newSnake) ==
  /\ snake' = Pop(newSnake)
  /\ UNCHANGED <<food, score, gameState, pending, snakeBody>>

\* The test of gameState (line 125) is missing.
moveSnake_whileStopped ==
  /\ Responsive
  /\ UNCHANGED <<direction, boardVars, hostVars>>
  /\ elapsed' = 0
  /\ TickDue
  /\ LET head == NewHead(snake, direction)
         newSnake == <<head>> \o snake
     IN IF HitsWall(head) THEN Collide
        ELSE IF HitsSelf(head, snake) THEN Collide
        ELSE IF head.x = food.x /\ head.y = food.y THEN Eat(newSnake)
        ELSE Advance(newSnake)

\* const moveSnake (lines 124-163), the callback of the interval: a new
\* period starts when it is called, whether or not the render that follows
\* sets a new interval.
moveSnake ==
  /\ Responsive
  /\ UNCHANGED <<direction, boardVars, hostVars>>
  /\ elapsed' = 0
  /\ IF gameState # "playing"
     THEN UNCHANGED <<snake, food, score, gameState, pending, snakeBody>>
     ELSE /\ TickDue
          /\ LET head == NewHead(snake, direction)
                 newSnake == <<head>> \o snake
             IN IF HitsWall(head) THEN Collide
                ELSE IF HitsSelf(head, snake) THEN Collide
                ELSE IF head.x = food.x /\ head.y = food.y THEN Eat(newSnake)
                ELSE Advance(newSnake)

\* The direction a command asks for.
Up == Pos(0, -1)
Down == Pos(0, 1)
Left == Pos(-1, 0)
Right == Pos(1, 0)

Requested(key) ==
  CASE key = "ArrowUp" -> Up
    [] key = "ArrowDown" -> Down
    [] key = "ArrowLeft" -> Left
    [] key = "ArrowRight" -> Right

ArrowKeys == {"ArrowUp", "ArrowDown", "ArrowLeft", "ArrowRight"}

\* The keys of the switch, and one key it has no case for.
Keys == ArrowKeys \cup {" ", "Enter"}

\* The guards test the other axis.
Turns_otherAxis(dir, req) == IF req.x = 0 THEN dir.x = 0 ELSE dir.y = 0

\* The test that guards each setDirection: direction.y === 0 for up and
\* down, direction.x === 0 for left and right.
Turns(dir, req) == IF req.x = 0 THEN dir.y = 0 ELSE dir.x = 0

\* The early return on gameOver and waiting (line 166) is missing.
handleKeyPress_unguarded(key) ==
  /\ Responsive
  /\ UNCHANGED <<snake, food, score, boardVars, pending, snakeBody, hostVars>>
  /\ IF key \in ArrowKeys
     THEN /\ direction' = IF Turns(direction, Requested(key))
                          THEN Requested(key) ELSE direction
          /\ UNCHANGED gameState
     ELSE IF key = " "
     THEN pauseGame /\ UNCHANGED direction
     ELSE UNCHANGED <<direction, gameState>>
  /\ Rerender

\* const handleKeyPress (lines 165-190), the window's keydown listener.
handleKeyPress(key) ==
  /\ Responsive
  /\ UNCHANGED <<snake, food, score, boardVars, pending, snakeBody, hostVars>>
  /\ IF gameState = "gameOver" \/ gameState = "waiting"
     THEN UNCHANGED <<direction, gameState>>
     ELSE IF key \in ArrowKeys
     THEN /\ direction' = IF Turns(direction, Requested(key))
                          THEN Requested(key) ELSE direction
          /\ UNCHANGED gameState
     ELSE IF key = " "
     THEN pauseGame /\ UNCHANGED direction
     ELSE UNCHANGED <<direction, gameState>>
  /\ Rerender

\* The buttons lack their disabled attribute.
DirectionButton_neverDisabled(key) ==
  /\ Responsive
  /\ direction' = IF Turns(direction, Requested(key))
                  THEN Requested(key) ELSE direction
  /\ UNCHANGED <<snake, food, score, gameState, boardVars, pending, snakeBody,
                 hostVars>>
  /\ Rerender

\* The four direction buttons of the mobile controls (lines 304-352),
\* disabled unless playing.
DirectionButton(key) ==
  /\ Responsive
  /\ gameState = "playing"
  /\ direction' = IF Turns(direction, Requested(key))
                  THEN Requested(key) ELSE direction
  /\ UNCHANGED <<snake, food, score, gameState, boardVars, pending, snakeBody,
                 hostVars>>
  /\ Rerender

\* The pause button of the mobile controls (lines 324-332).
PauseButton ==
  /\ Responsive
  /\ gameState # "waiting" /\ gameState # "gameOver"
  /\ pauseGame
  /\ UNCHANGED <<snake, food, direction, score, boardVars, pending, snakeBody,
                 hostVars>>
  /\ Rerender

\* The callback reads the score of the render current when it fires.
TimeoutFires_liveScore ==
  /\ Responsive
  /\ pending # <<>>
  /\ checkForNewHighScore(score, Head(pending).highScores)
  /\ pending' = Tail(pending)
  /\ UNCHANGED <<engineVars, highScores, playerName, snakeBody, hostVars,
                 elapsed>>

\* The callback of the oldest pending timeout (lines 138 and 146).
TimeoutFires ==
  /\ Responsive
  /\ pending # <<>>
  /\ checkForNewHighScore(Head(pending).finalScore, Head(pending).highScores)
  /\ pending' = Tail(pending)
  /\ UNCHANGED <<engineVars, highScores, playerName, snakeBody, hostVars,
                 elapsed>>

\* onChange of the name input (line 391), rendered inside the dialog.
TypeName(name) ==
  /\ Responsive
  /\ showNameDialog
  /\ playerName' = name
  /\ UNCHANGED <<engineVars, highScores, showNameDialog, newHighScore,
                 pending, snakeBody, hostVars, elapsed>>

\* The Skip button (line 402) and the dialog's onOpenChange (line 375).
Skip ==
  /\ Responsive
  /\ showNameDialog
  /\ showNameDialog' = FALSE
  /\ UNCHANGED <<engineVars, highScores, playerName, newHighScore,
                 pending, snakeBody, hostVars, elapsed>>

\* const savePlayerHighScore (lines 78-95), called by the form's onSubmit
\* (lines 192-195).
savePlayerHighScore ==
  /\ Responsive
  /\ showNameDialog
  /\ UNCHANGED <<engineVars, newHighScore, pending, snakeBody, mounted>>
  /\ IF Trim(playerName) = ""
     THEN UNCHANGED <<highScores, showNameDialog, playerName, storage>>
     ELSE /\ highScores' =
               Slice(SortDesc(Append(highScores,
                                     HighScore(Trim(playerName), newHighScore))),
                     MAX_HIGH_SCORES)
          /\ storage' = Json(highScores')
          /\ showNameDialog' = FALSE
          /\ playerName' = ""
  /\ Rerender

----------------------------------------------------------------------------
(* The component *)

\* The first render (lines 47-58) with saved in localStorage.  When the
\* initializer of highScores throws, the render throws and nothing is
\* mounted: no handler, interval or listener exists.
Mount(saved) ==
  /\ storage = saved
  /\ snake = INITIAL_SNAKE
  /\ food = INITIAL_FOOD
  /\ direction = INITIAL_DIRECTION
  /\ gameState = "waiting"
  /\ score = 0
  /\ mounted = ~ParseThrows(saved)
  /\ highScores = IF ParseThrows(saved) THEN <<>> ELSE Load(saved)
  /\ showNameDialog = FALSE
  /\ playerName = ""
  /\ newHighScore = 0
  /\ pending = <<>>
  /\ snakeBody = <<>>
  /\ elapsed = 0

\* The first run: nothing is stored yet.
Init == Mount(Absent)

\* The handlers the player and the timers drive; the name form is left
\* untouched (the dialog is only dismissed).
Next ==
  \/ PlayAgainButton
  \/ startGame
  \/ moveSnake
  \/ \E key \in Keys : handleKeyPress(key)
  \/ \E key \in ArrowKeys : DirectionButton(key)
  \/ PauseButton
  \/ TimeoutFires
  \/ Skip

Spec == Init /\ [][Next]_vars

\* The number of foods a game of the leaderboard and timer specifications
\* goes on for.
MaxFoods == 2

\* A leaderboard an earlier session of the program saved: four records, the
\* last three tied.
SavedBoard ==
  <<HighScore("CD", 2 * FOOD_SCORE), HighScore("CD", FOOD_SCORE),
    HighScore("CD", FOOD_SCORE), HighScore("CD", FOOD_SCORE)>>

\* What the component can find in localStorage when it mounts.
StoredValues == {Absent, Malformed, Json(SavedBoard)}

InitBoard == \E saved \in StoredValues : Mount(saved)

\* A tick of a game of at most MaxFoods foods.
Tick == moveSnake /\ score' <= MaxFoods * FOOD_SCORE

\* The games, the delayed checks and the name form, keyboard only.
NextBoard ==
  \/ PlayAgainButton
  \/ startGame
  \/ Tick
  \/ \E key \in ArrowKeys : handleKeyPress(key)
  \/ TimeoutFires
  \/ \E name \in Names : TypeName(name)
  \/ Skip
  \/ savePlayerHighScore

SpecBoard == InitBoard /\ [][NextBoard]_vars

\* The instants of a period at which time is observed: thirds of GAME_SPEED.
Instants == {(k * GAME_SPEED) \div 3 : k \in 0..3}

\* Time passes, at most until the interval is due.
Tock ==
  /\ Responsive
  /\ elapsed < GAME_SPEED
  /\ elapsed' \in {t \in Instants : t > elapsed}
  /\ UNCHANGED programVars

\* setInterval(moveSnake, GAME_SPEED) (line 198): the interval calls
\* moveSnake one period after it was set or last fired.
IntervalFires ==
  /\ elapsed = GAME_SPEED
  /\ Tick

\* The games with the clock of the interval, keyboard only.
NextTimer ==
  \/ PlayAgainButton
  \/ startGame
  \/ Tock
  \/ IntervalFires
  \/ \E key \in ArrowKeys : handleKeyPress(key)
  \/ TimeoutFires
  \/ Skip

SpecTimer == Init /\ [][NextTimer]_vars

----------------------------------------------------------------------------
(* Properties *)

Opposite(dir) == Pos(0 - dir.x, 0 - dir.y)

NoDuplicates(body) == Cardinality(Range(body)) = Len(body)

\* The cell the next tick moves the head to.
Ahead == NewHead(snake, direction)

\* A step in which the oldest pending timeout ran.
CheckRuns == pending # <<>> /\ pending' = Tail(pending)

\* A step that enters gameOver.
EntersGameOver == gameState # "gameOver" /\ gameState' = "gameOver"

\* (C1) A delayed high-score check that fires after reset has moved the game
\* out of gameOver surfaces no name-entry request: it neither opens the name
\* dialog nor sets the pending high score.
C1_NoPromptAfterReset ==
  [][(CheckRuns /\ gameState # "gameOver")
       => (showNameDialog' = showNameDialog /\ newHighScore' = newHighScore)]_vars

\* (C2) Every step into gameOver schedules exactly one high-score check,
\* which carries the score of the collision tick; no other step schedules
\* one; and a scheduled check leaves the queue only by being run on the
\* score it carries, whatever the score is by then (a score of 0 prompts
\* nothing, any other score is prompted for while the leaderboard the check
\* sees has room).
C2_OneCheckOfCollisionScore ==
  [][/\ EntersGameOver
          => /\ Len(pending') = Len(pending) + 1
             /\ SubSeq(pending', 1, Len(pending)) = pending
             /\ pending'[Len(pending')].finalScore = score
     /\ ~EntersGameOver
          => \/ pending' = pending
             \/ /\ CheckRuns
                /\ IF Head(pending).finalScore = 0
                   THEN UNCHANGED <<showNameDialog, newHighScore>>
                   ELSE Len(Head(pending).highScores) < MAX_HIGH_SCORES
                          => /\ showNameDialog'
                             /\ newHighScore' = Head(pending).finalScore]_vars

\* The check of a game with a positive score has run after the reset: the
\* score is back to 0 and the prompt shows the score of the collision.
C2_Witness ==
  /\ gameState = "waiting" /\ score = 0 /\ pending = <<>>
  /\ showNameDialog /\ newHighScore >= 2 * FOOD_SCORE

\* (C3) While playing or paused no two segments of the snake are equal, and
\* the snake always has at least one segment.
C3_NoSelfOverlap ==
  /\ Len(snake) >= 1
  /\ gameState \in {"playing", "paused"} => NoDuplicates(snake)

\* A snake long enough to run into itself is about to do so.
C3_Witness ==
  /\ gameState \in {"playing", "paused"}
  /\ Len(snake) >= 4
  /\ Ahead \in Range(snake)

\* (C4) The food is never on a segment of the snake.
C4_FoodOffSnake == food \notin Range(snake)

\* The snake has eaten twice (the food was regenerated twice) and moved on.
C4_Witness ==
  /\ score = 2 * FOOD_SCORE /\ Len(snake) = 3
  /\ gameState = "playing"
  /\ food # INITIAL_FOOD
  /\ Ahead = food

\* (C5) The snake covers a strict subset of the grid, and the argument of
\* generateFood always leaves a free cell, so that its loop terminates.
C5_FoodLoopTerminates ==
  /\ Len(snake) < GRID_SIZE * GRID_SIZE
  /\ FreeCells(snakeBody) # {}

\* (C6) A tick while playing that does not end the game keeps the length of
\* the snake when the new head is not on the food, and adds exactly one
\* segment when it is.
C6_LengthRule ==
  (gameState = "playing" /\ Ahead \in Cells /\ Ahead \notin Range(snake))
    => ~ENABLED (/\ moveSnake
                 /\ Len(snake') # IF Ahead = food THEN Len(snake) + 1
                                                  ELSE Len(snake))

\* (C7) A tick whose new head is on the food adds exactly 10 to the score and
\* moves the food to a cell off the grown snake; a tick that does not eat
\* leaves score and food unchanged.
C7_EatRule ==
  gameState = "playing"
    => ~ENABLED (/\ moveSnake
                 /\ IF Ahead = food
                    THEN ~(/\ score' = score + 10
                           /\ food' \in Cells
                           /\ food' \notin Range(<<Ahead>> \o snake)
                           /\ food' \notin Range(snake'))
                    ELSE ~(score' = score /\ food' = food))

\* (C8) A tick while playing whose new head is outside the grid sets
\* gameOver and leaves snake, food and score as they were.
C8_WallCollision ==
  (gameState = "playing" /\ Responsive /\ Ahead \notin Cells)
    => /\ TickDue => ENABLED moveSnake
       /\ ~ENABLED (/\ moveSnake
                    /\ ~(/\ gameState' = "gameOver"
                         /\ snake' = snake /\ food' = food /\ score' = score))

\* The game ended on a wall: the head still faces it, the check is pending.
C8_Witness ==
  /\ gameState = "gameOver" /\ pending # <<>>
  /\ Ahead \notin Cells
  /\ Len(snake) >= 2

\* (C9) A tick while playing whose new head is on any segment of the snake
\* as it is before the move, the tail included, sets gameOver and leaves
\* snake, food and score as they were.
C9_SelfCollision ==
  (gameState = "playing" /\ Responsive /\ Ahead \in Range(snake))
    => /\ TickDue => ENABLED moveSnake
       /\ ~ENABLED (/\ moveSnake
                    /\ ~(/\ gameState' = "gameOver"
                         /\ snake' = snake /\ food' = food /\ score' = score))

\* The game ended with the head running into the cell of its own tail.
C9_Witness ==
  /\ gameState = "gameOver" /\ pending # <<>>
  /\ Len(snake) >= 4
  /\ Ahead = snake[Len(snake)]

\* (C10) A direction command opposite to the current direction, from the
\* keyboard or from a direction button, changes nothing.
C10_ReversalIgnored ==
  \A key \in ArrowKeys :
    Requested(key) = Opposite(direction)
      => /\ ~ENABLED (handleKeyPress(key) /\ vars' # vars)
         /\ ~ENABLED (DirectionButton(key) /\ vars' # vars)

\* Heading right while playing, where both the key and the button for left
\* are live.
C10_Witness ==
  /\ gameState = "playing" /\ direction = Right /\ Len(snake) >= 2
  /\ ENABLED handleKeyPress("ArrowLeft")
  /\ ENABLED DirectionButton("ArrowLeft")

\* (C11) The pause command, from the space key or the pause button, turns
\* playing into paused and paused into playing and changes nothing else; in
\* waiting and gameOver the key changes nothing and the button is disabled.
C11_TogglePause ==
  LET others == <<snake, food, direction, score, boardVars, pending,
                  snakeBody, hostVars>>
      flips(to) ==
        /\ Responsive => ENABLED handleKeyPress(" ") /\ ENABLED PauseButton
        /\ ~ENABLED (/\ handleKeyPress(" ")
                     /\ ~(gameState' = to /\ others' = others))
        /\ ~ENABLED (PauseButton /\ ~(gameState' = to /\ others' = others))
  IN /\ gameState = "playing" => flips("paused")
     /\ gameState = "paused" => flips("playing")
     /\ gameState \in {"waiting", "gameOver"}
          => /\ Responsive => ENABLED handleKeyPress(" ")
             /\ ~ENABLED (handleKeyPress(" ") /\ vars' # vars)
             /\ ~ENABLED PauseButton

\* A game in progress is paused.
C11_Witness ==
  /\ gameState = "paused" /\ Len(snake) >= 2
  /\ ENABLED handleKeyPress(" ")

\* (C12) In waiting and gameOver a direction command changes nothing (the
\* key handler returns, the buttons are disabled), so that waiting always
\* holds the initial direction and a game starts with it.
C12_DirectionIgnoredWhenStopped ==
  /\ gameState \in {"waiting", "gameOver"}
       => \A key \in ArrowKeys :
            /\ Responsive => ENABLED handleKeyPress(key)
            /\ ~ENABLED (handleKeyPress(key) /\ vars' # vars)
            /\ ~ENABLED DirectionButton(key)
  /\ gameState = "waiting"
       => /\ direction = Pos(0, -1)
          /\ ~ENABLED (startGame /\ direction' # Pos(0, -1))

\* A game is over with the snake heading left: up and down would be
\* accepted turns if the game were running.
C12_Witness ==
  /\ gameState = "gameOver" /\ direction = Left
  /\ ENABLED handleKeyPress("ArrowUp")

\* (C13) resetGame, called in any reachable state, sets snake, food,
\* direction and score to their initial values and gameState to waiting.
C13_ResetRestoresInitial ==
  /\ Responsive => ENABLED resetGame
  /\ ~ENABLED (/\ resetGame
               /\ ~(/\ snake' = <<Pos(GRID_SIZE \div 2, GRID_SIZE \div 2)>>
                    /\ food' = Pos((3 * GRID_SIZE) \div 4, (3 * GRID_SIZE) \div 4)
                    /\ direction' = Pos(0, -1)
                    /\ score' = 0
                    /\ gameState' = "waiting"))

\* A game with a positive score was played, and reset has put the engine
\* back: the prompt of that game is still there.
C13_Witness ==
  /\ gameState = "waiting" /\ newHighScore > 0
  /\ snake = INITIAL_SNAKE /\ food = INITIAL_FOOD /\ score = 0

\* (C17) A tick of the interval in waiting, paused or gameOver changes
\* nothing: snake, food, score, direction and gameState stay and no
\* high-score check is scheduled.
C17_TickIgnoredWhenStopped ==
  gameState # "playing"
    => /\ Responsive => ENABLED moveSnake
       /\ ~ENABLED (moveSnake /\ programVars' # programVars)

\* A paused game whose next move would be an ordinary one.
C17_Witness ==
  /\ gameState = "paused" /\ Len(snake) >= 2
  /\ Ahead \in Cells /\ Ahead \notin Range(snake)
  /\ ENABLED moveSnake

\* (C18) With two segments or more, the direction in effect for the next
\* tick is never the opposite of the last move: the head is never sent back
\* onto the segment right behind it.
C18_NoReversalBetweenTicks ==
  (gameState \in {"playing", "paused"} /\ Len(snake) >= 2)
    => Ahead # snake[2]

\* The number of records of scores equal to rec.
Count(scores, rec) == Cardinality({i \in 1..Len(scores) : scores[i] = rec})

\* The oldest pending check: its candidate score and the leaderboard of the
\* render that scheduled it, the one checkForNewHighScore reads.
Candidate == Head(pending).finalScore
Seen == Head(pending).highScores

C15_SortedAndCapped ==
  /\ Len(highScores) <= 5
  /\ \A i \in 1..Len(highScores) : \A j \in 1..Len(highScores) :
       i < j => highScores[i].score >= highScores[j].score

\* A full leaderboard in which an inserted record went above older ones and
\* pushed one out, and whose record at the capacity boundary ties with the
\* one above it.
C15_Witness ==
  /\ Len(highScores) = 5
  /\ highScores[2].name = "AB" /\ highScores[3].name = "CD"
  /\ highScores[4].score = highScores[5].score
  /\ storage = Json(highScores)

\* (C16) With nothing stored, or with a stored text that is not valid JSON,
\* the component mounts with an empty leaderboard.
C16_LoadNeverFails ==
  storage.kind # "json" => (mounted /\ highScores = <<>>)

\* A step that submits the name form with a name that is not blank: the
\* only step that closes the dialog and clears the name.
Submits ==
  /\ showNameDialog /\ Trim(playerName) # ""
  /\ ~showNameDialog' /\ playerName' = ""

\* (C19) A submission of the name form with a name that is not blank puts
\* its record on the leaderboard: the leaderboard holds one more copy of
\* the record after the submission than before.
C19_CommittedRecordPresent ==
  [][Submits
       => Count(highScores', HighScore(Trim(playerName), newHighScore))
            = Count(highScores, HighScore(Trim(playerName), newHighScore)) + 1]_vars

\* A step that keeps the game playing and changes the direction: an accepted
\* direction command.
AcceptedTurn ==
  gameState = "playing" /\ gameState' = "playing" /\ direction' # direction

\* (C20) While playing, an accepted direction change neither restarts nor
\* delays the interval: the time run since the interval was set or last
\* fired is the same after the change as before it, so the next tick comes
\* one period after the previous one.
C20_TurnKeepsCadence ==
  [][AcceptedTurn => elapsed' = elapsed]_vars

====
